---- MODULE Spec2Model ----
(***************************************************************************)
(* Model of cache/blobs/compression.go: compression sniffing               *)
(* (detectCompressionType, DetectLayerMediaType), the walk of a chain of   *)
(* cache references against the expected DiffPairs (GetMediaTypeForLayers) *)
(* and the OCI <-> Docker media type conversion (ConvertLayerMediaType).   *)
(***************************************************************************)
EXTENDS Integers, Sequences, FiniteSets, TLC

VARIABLES
    pc,          \* position of the call being executed
    diffPairs,   \* GetMediaTypeForLayers: argument, ordered parent -> child
    chain,       \* the snapshots reachable from ref, chain[1] = ref's (child-most)
    handles,     \* every ImmutableRef handle that exists: snapshot, releases, late uses
    tref,        \* GetMediaTypeForLayers: the cursor handle (Nil = nil interface)
    parent,      \* GetMediaTypeForLayers: the loop body's parent handle
    info,        \* GetMediaTypeForLayers: the loop body's info
    i,           \* GetMediaTypeForLayers: the loop index
    layerTypes,  \* GetMediaTypeForLayers: the slice returned
    calls,       \* number of Clone / Info / Parent / Release calls the walk made
    stream,      \* DetectLayerMediaType: the bytes of the blob
    rd,          \* DetectLayerMediaType: what cr.Read returns: n and err
    oci,         \* DetectLayerMediaType: the oci argument
    openFails,   \* DetectLayerMediaType: whether cs.ReaderAt fails
    det,         \* DetectLayerMediaType: results and whether ra was closed
    mt,          \* ConvertLayerMediaType: the media type the caller holds
    hist         \* ConvertLayerMediaType: the calls made, in order

walkVars == <<diffPairs, chain, handles, tref, parent, info, i, layerTypes, calls>>
detVars  == <<stream, rd, oci, openFails, det>>
cvVars   == <<mt, hist>>
vars     == <<pc, walkVars, detVars, cvVars>>

----------------------------------------------------------------------------
\* Bounds of the model.
MaxN      == 3   \* longest diffPairs
MaxChain  == 3   \* longest chain of snapshots behind ref
MaxStream == 4   \* longest blob, in bytes
MaxCalls  == 2   \* longest sequence of conversions applied to one media type

SeqsUpTo(S, n) == UNION {[1..k -> S] : k \in 0..n}
Min(a, b) == IF a < b THEN a ELSE b

----------------------------------------------------------------------------
\* Media types and the conversion tables.
MediaTypeImageLayer             == "application/vnd.oci.image.layer.v1.tar"
MediaTypeImageLayerGzip         == "application/vnd.oci.image.layer.v1.tar+gzip"
MediaTypeDockerSchema2Layer     == "application/vnd.docker.image.rootfs.diff.tar"
MediaTypeDockerSchema2LayerGzip == "application/vnd.docker.image.rootfs.diff.tar.gzip"

OCITypes    == {MediaTypeImageLayer, MediaTypeImageLayerGzip}
DockerTypes == {MediaTypeDockerSchema2Layer, MediaTypeDockerSchema2LayerGzip}
Canonical   == OCITypes \cup DockerTypes

toDockerLayerType ==
    (MediaTypeImageLayer             :> MediaTypeDockerSchema2Layer) @@
    (MediaTypeDockerSchema2Layer     :> MediaTypeDockerSchema2Layer) @@
    (MediaTypeImageLayerGzip         :> MediaTypeDockerSchema2LayerGzip) @@
    (MediaTypeDockerSchema2LayerGzip :> MediaTypeDockerSchema2LayerGzip)

toOCILayerType ==
    (MediaTypeImageLayer             :> MediaTypeImageLayer) @@
    (MediaTypeDockerSchema2Layer     :> MediaTypeImageLayer) @@
    (MediaTypeImageLayerGzip         :> MediaTypeImageLayerGzip) @@
    (MediaTypeDockerSchema2LayerGzip :> MediaTypeImageLayerGzip)

\* A Go map read: the zero value "" for a key the map does not hold.
MapGet(m, key) == IF key \in DOMAIN m THEN m[key] ELSE ""

\* Faulty variant: the oci flag is ignored, the OCI table is always used.
ConvertedIgnoringFlag(mediaType, toOCI) == MapGet(toOCILayerType, mediaType)

\* converted, after the if/else on oci.
Converted(mediaType, toOCI) ==
    IF toOCI THEN MapGet(toOCILayerType, mediaType)
             ELSE MapGet(toDockerLayerType, mediaType)

\* Faulty variant: the fallback returns converted (the empty string), not mediaType.
ConvertReturningConverted(mediaType, toOCI) == Converted(mediaType, toOCI)

ConvertLayerMediaType(mediaType, toOCI) ==
    IF Converted(mediaType, toOCI) = "" THEN mediaType
                                        ELSE Converted(mediaType, toOCI)

\* Number of logrus.Warnf calls one ConvertLayerMediaType call makes.
ConvertWarnings(mediaType, toOCI) ==
    IF Converted(mediaType, toOCI) = "" THEN 1 ELSE 0

\* Strings the callers hand to ConvertLayerMediaType.
ConvertInputs == Canonical \cup {"", "application/octet-stream"}

----------------------------------------------------------------------------
\* Compression detection.
Uncompressed       == 0
Gzip               == 1
UnknownCompression == -1

BufSize   == 10
Bytes     == {0, 8, 31, 139}
GzipMagic == <<31, 139, 8>>

\* buf after cr.Read(buf[:]) delivered n bytes: the rest keeps its zero value.
BufAfterRead(s, n) == [k \in 1..BufSize |-> IF k <= n THEN s[k] ELSE 0]

\* Faulty variant: io.EOF is not excused.
detectCompressionTypeStrictEOF(s, n, err) ==
    IF err # "nil"
        THEN [ct |-> UnknownCompression, err |-> err]
        ELSE IF n >= Len(GzipMagic) /\ SubSeq(BufAfterRead(s, n), 1, Len(GzipMagic)) = GzipMagic
            THEN [ct |-> Gzip, err |-> "nil"]
            ELSE [ct |-> Uncompressed, err |-> "nil"]

\* detectCompressionType, given what the single cr.Read call returned.
detectCompressionType(s, n, err) ==
    IF err # "nil" /\ err # "EOF"
        THEN [ct |-> UnknownCompression, err |-> err]
        ELSE IF n >= Len(GzipMagic) /\ SubSeq(BufAfterRead(s, n), 1, Len(GzipMagic)) = GzipMagic
            THEN [ct |-> Gzip, err |-> "nil"]
            ELSE [ct |-> Uncompressed, err |-> "nil"]

\* The switch on ct of DetectLayerMediaType.
LayerMediaTypeOf(ct, useOCI) ==
    IF ct = Uncompressed
        THEN [mt |-> IF useOCI THEN MediaTypeImageLayer ELSE MediaTypeDockerSchema2Layer,
              err |-> "nil"]
    ELSE IF ct = Gzip
        THEN [mt |-> IF useOCI THEN MediaTypeImageLayerGzip ELSE MediaTypeDockerSchema2LayerGzip,
              err |-> "nil"]
    ELSE [mt |-> "", err |-> "failed to detect"]

\* What one cr.Read(buf[:]) may return on a stream s (io.Reader): at most
\* len(buf) bytes and at most what the stream holds; io.EOF only once the
\* stream is exhausted; any other error at any point.
ReadOutcomes(s) ==
    {r \in [n : 0..Min(BufSize, Len(s)), err : {"nil", "EOF", "io"}] :
        r.err = "EOF" => r.n = Len(s)}

NoDet == [mt |-> "", err |-> "nil", ct |-> Uncompressed, closed |-> FALSE]

----------------------------------------------------------------------------
\* The chain of cache references.
Nil == 0

DiffIDs == {"sha256:d1", "sha256:d2"}
Blobs   == {"sha256:b1", "sha256:b2"}
RefMediaTypes == {MediaTypeImageLayerGzip, MediaTypeDockerSchema2Layer}

DiffPair == [DiffID : DiffIDs, Blobsum : Blobs]
RefInfo  == [DiffID : DiffIDs, Blob : Blobs, MediaType : RefMediaTypes]
NoInfo   == [DiffID |-> "", Blob |-> "", MediaType |-> ""]

\* The nil-ness of the ref argument: ref is the handle 1 of the caller, on
\* the child-most snapshot, when there is a chain at all.
HeadRef(c) == IF Len(c) = 0 THEN Nil ELSE 1

\* A use (Info, Parent) of handle h: counted as late when h was released.
Use(hs, h) == [hs EXCEPT ![h].late = @ + IF hs[h].rel > 0 THEN 1 ELSE 0]

\* h.Release()
Release(hs, h) == [hs EXCEPT ![h].rel = @ + 1]

\* A new handle on snapshot s.
NewHandle(hs, s, how) == Append(hs, [snap |-> s, rel |-> 0, late |-> 0, by |-> how])

\* Faulty variant: the blob digest is not compared.
MatchesDiffIDOnly(inf, dp) == inf.DiffID = dp.DiffID

\* Faulty variant: one equal digest is enough.
MatchesEither(inf, dp) == inf.DiffID = dp.DiffID \/ inf.Blob = dp.Blobsum

\* The condition under which the walk goes on from info to dp.
Matches(inf, dp) == inf.DiffID = dp.DiffID /\ inf.Blob = dp.Blobsum

N == Len(diffPairs)

----------------------------------------------------------------------------
\* Initial states: one call with its arguments, not yet started.
WalkIdle ==
    /\ diffPairs = <<>> /\ chain = <<>> /\ handles = <<>>
    /\ tref = Nil /\ parent = Nil /\ info = NoInfo /\ i = 0
    /\ layerTypes = <<>>
    /\ calls = [Clone |-> 0, Info |-> 0, Parent |-> 0, Release |-> 0]

DetIdle ==
    /\ stream = <<>> /\ rd = [n |-> 0, err |-> "nil"] /\ oci = FALSE
    /\ openFails = FALSE /\ det = NoDet

CvIdle == mt = "" /\ hist = <<>>

InitWalk ==
    /\ pc = "start"
    /\ diffPairs \in SeqsUpTo(DiffPair, MaxN)
    /\ chain \in SeqsUpTo(RefInfo, MaxChain)
    /\ handles = IF Len(chain) = 0 THEN <<>> ELSE NewHandle(<<>>, 1, "caller")
    /\ tref = Nil /\ parent = Nil /\ info = NoInfo /\ i = 0
    /\ layerTypes = <<>>
    /\ calls = [Clone |-> 0, Info |-> 0, Parent |-> 0, Release |-> 0]
    /\ DetIdle /\ CvIdle

InitDetect ==
    /\ pc = "detect"
    /\ stream \in SeqsUpTo(Bytes, MaxStream)
    /\ rd \in ReadOutcomes(stream)
    /\ oci \in BOOLEAN
    /\ openFails \in BOOLEAN
    /\ det = NoDet
    /\ WalkIdle /\ CvIdle

InitConvert ==
    /\ pc = "convert"
    /\ mt \in ConvertInputs
    /\ hist = <<>>
    /\ WalkIdle /\ DetIdle

Init == InitWalk \/ InitDetect \/ InitConvert

----------------------------------------------------------------------------
\* GetMediaTypeForLayers.

\* make, the nil check and ref.Clone().
WalkStart ==
    /\ pc = "start"
    /\ layerTypes' = [k \in 1..N |-> ""]
    /\ IF HeadRef(chain) = Nil
          THEN /\ pc' = "done"
               /\ UNCHANGED <<handles, tref, calls>>
          ELSE /\ handles' = NewHandle(Use(handles, HeadRef(chain)),
                                       handles[HeadRef(chain)].snap, "Clone")
               /\ tref' = Len(handles) + 1
               /\ calls' = [calls EXCEPT !.Clone = @ + 1]
               /\ pc' = "loop"
    /\ UNCHANGED <<diffPairs, chain, parent, info, i, detVars, cvVars>>

\* The loop head, dp, tref.Info() and the comparison with its break.
WalkInfo ==
    /\ pc = "loop"
    /\ IF i >= N
          THEN /\ pc' = "final"
               /\ UNCHANGED <<handles, info, calls>>
          ELSE IF tref = Nil
          THEN /\ pc' = "panic"
               /\ UNCHANGED <<handles, info, calls>>
          ELSE /\ info' = chain[handles[tref].snap]
               /\ handles' = Use(handles, tref)
               /\ calls' = [calls EXCEPT !.Info = @ + 1]
               /\ pc' = IF Matches(info', diffPairs[N - i]) THEN "write" ELSE "final"
    /\ UNCHANGED <<diffPairs, chain, tref, parent, i, layerTypes, detVars, cvVars>>

\* Faulty variant: the slice is filled in the order the refs are visited.
WalkWriteUnreversed ==
    /\ pc = "write"
    /\ layerTypes' = [layerTypes EXCEPT ![i + 1] = info.MediaType]
    /\ pc' = "parent"
    /\ UNCHANGED <<diffPairs, chain, handles, tref, parent, info, i, calls, detVars, cvVars>>

\* layerTypes[len(diffPairs)-1-i] = info.MediaType
WalkWrite ==
    /\ pc = "write"
    /\ layerTypes' = [layerTypes EXCEPT ![N - i] = info.MediaType]
    /\ pc' = "parent"
    /\ UNCHANGED <<diffPairs, chain, handles, tref, parent, info, i, calls, detVars, cvVars>>

\* Faulty variant: tref is released before its Parent() is asked for.
WalkParentAfterRelease ==
    /\ pc = "parent"
    /\ LET released == Use(Release(handles, tref), tref)
           s == handles[tref].snap
       IN  IF s < Len(chain)
              THEN /\ handles' = NewHandle(released, s + 1, "Parent")
                   /\ parent' = Len(handles) + 1
              ELSE /\ handles' = released
                   /\ parent' = Nil
    /\ calls' = [calls EXCEPT !.Parent = @ + 1, !.Release = @ + 1]
    /\ pc' = "advance"
    /\ UNCHANGED <<diffPairs, chain, tref, info, i, layerTypes, detVars, cvVars>>

\* parent := tref.Parent()
WalkParent ==
    /\ pc = "parent"
    /\ LET used == Use(handles, tref)
           s == handles[tref].snap
       IN  IF s < Len(chain)
              THEN /\ handles' = NewHandle(used, s + 1, "Parent")
                   /\ parent' = Len(handles) + 1
              ELSE /\ handles' = used
                   /\ parent' = Nil
    /\ calls' = [calls EXCEPT !.Parent = @ + 1]
    /\ pc' = "release"
    /\ UNCHANGED <<diffPairs, chain, tref, info, i, layerTypes, detVars, cvVars>>

\* tref.Release(context.TODO()) of the loop body
WalkRelease ==
    /\ pc = "release"
    /\ handles' = Release(handles, tref)
    /\ calls' = [calls EXCEPT !.Release = @ + 1]
    /\ pc' = "advance"
    /\ UNCHANGED <<diffPairs, chain, tref, parent, info, i, layerTypes, detVars, cvVars>>

\* Faulty variant: no break when the chain is exhausted.
WalkAdvanceNoNilCheck ==
    /\ pc = "advance"
    /\ tref' = parent
    /\ parent' = Nil
    /\ info' = NoInfo
    /\ i' = i + 1
    /\ pc' = "loop"
    /\ UNCHANGED <<diffPairs, chain, handles, layerTypes, calls, detVars, cvVars>>

\* tref = parent, the nil check with its break, and the end of the loop body
\* (parent and info go out of scope).
WalkAdvance ==
    /\ pc = "advance"
    /\ tref' = parent
    /\ parent' = Nil
    /\ info' = NoInfo
    /\ IF parent = Nil
          THEN pc' = "final" /\ i' = i
          ELSE pc' = "loop" /\ i' = i + 1
    /\ UNCHANGED <<diffPairs, chain, handles, layerTypes, calls, detVars, cvVars>>

\* Faulty variant: the handle the loop ended on is not released.
WalkFinalNoRelease ==
    /\ pc = "final"
    /\ pc' = "done"
    /\ UNCHANGED <<walkVars, detVars, cvVars>>

\* The release after the loop, and the return.
WalkFinal ==
    /\ pc = "final"
    /\ IF tref # Nil
          THEN /\ handles' = Release(handles, tref)
               /\ calls' = [calls EXCEPT !.Release = @ + 1]
          ELSE UNCHANGED <<handles, calls>>
    /\ pc' = "done"
    /\ UNCHANGED <<diffPairs, chain, tref, parent, info, i, layerTypes, detVars, cvVars>>

----------------------------------------------------------------------------
\* DetectLayerMediaType: cs.ReaderAt, detectCompressionType on its reader,
\* the switch on the result, and the deferred ra.Close().
DetectLayerMediaType(fails, s, r, useOCI) ==
    IF fails
        THEN [mt |-> "", err |-> "open", ct |-> Uncompressed, closed |-> FALSE]
    ELSE LET d == detectCompressionType(s, r.n, r.err)
         IN  IF d.err # "nil"
                THEN [mt |-> "", err |-> d.err, ct |-> d.ct, closed |-> TRUE]
                ELSE [mt |-> LayerMediaTypeOf(d.ct, useOCI).mt,
                      err |-> LayerMediaTypeOf(d.ct, useOCI).err,
                      ct |-> d.ct, closed |-> TRUE]

DetectCall ==
    /\ pc = "detect"
    /\ det' = DetectLayerMediaType(openFails, stream, rd, oci)
    /\ pc' = "detected"
    /\ UNCHANGED <<stream, rd, oci, openFails, walkVars, cvVars>>

----------------------------------------------------------------------------
\* A caller converting the media type it holds, any number of times.
ConvertCall ==
    /\ pc = "convert"
    /\ Len(hist) < MaxCalls
    /\ \E toOCI \in BOOLEAN :
          /\ hist' = Append(hist, [in |-> mt, oci |-> toOCI,
                                   out |-> ConvertLayerMediaType(mt, toOCI),
                                   warnings |-> ConvertWarnings(mt, toOCI)])
          /\ mt' = ConvertLayerMediaType(mt, toOCI)
    /\ UNCHANGED <<pc, walkVars, detVars>>

----------------------------------------------------------------------------
Next ==
    \/ WalkStart
    \/ WalkInfo
    \/ WalkWrite
    \/ WalkParent
    \/ WalkRelease
    \/ WalkAdvance
    \/ WalkFinal
    \/ DetectCall
    \/ ConvertCall

Spec == Init /\ [][Next]_vars

----------------------------------------------------------------------------
\* Properties.

\* States in which GetMediaTypeForLayers has made its slice.
WalkRunning == pc \in {"loop", "write", "parent", "release", "advance", "final", "done"}

\* The ref at chain position p (1 = ref itself, the child) agrees with the
\* DiffPair it corresponds to, diffPairs[N - p + 1].
MatchAt(p) ==
    /\ chain[p].DiffID = diffPairs[N - p + 1].DiffID
    /\ chain[p].Blob = diffPairs[N - p + 1].Blobsum

\* Chain positions that have a DiffPair.
Paired == 1..Min(N, Len(chain))

\* The first chain position that disagrees with its DiffPair.
FirstMismatch(p) == p \in Paired /\ ~MatchAt(p) /\ \A q \in 1..(p - 1) : MatchAt(q)

\* layerTypes[j] is the media type recorded by the ref diffPairs[j] corresponds to.
Trusted(j) == layerTypes[j] = chain[N - j + 1].MediaType /\ layerTypes[j] # ""

NonEmptyPositions == {j \in 1..Len(layerTypes) : layerTypes[j] # ""}

WalkHandles == {h \in 1..Len(handles) : handles[h].by # "caller"}

\* C1: with N >= 1 DiffPairs and a chain of N refs that all agree with their
\* DiffPairs, the slice returned has length N and holds at every position j the
\* media type of the ref diffPairs[j] corresponds to, none left empty.
C1_FullMatch ==
    (pc = "done" /\ N >= 1 /\ Len(chain) = N /\ \A p \in 1..N : MatchAt(p))
        => /\ Len(layerTypes) = N
           /\ \A j \in 1..N : Trusted(j)

C1_Witness ==
    /\ pc = "done" /\ N = 3 /\ Len(chain) = 3
    /\ \A p \in 1..3 : MatchAt(p)
    /\ chain[1].MediaType # chain[3].MediaType

\* C2: when the ref at some chain position disagrees with its DiffPair (in the
\* DiffID or in the blob digest), the slice holds the empty string for that
\* layer and for every layer closer to the root, at every point of the walk and
\* at its end, whatever the refs closer to the root hold.
C2_TrustBoundary ==
    WalkRunning =>
        \A p \in Paired : ~MatchAt(p) =>
            \A j \in 1..(N - p + 1) : layerTypes[j] = ""

C2_Witness ==
    /\ pc = "done" /\ N = 3 /\ Len(chain) = 3
    /\ MatchAt(1) /\ MatchAt(3)
    /\ chain[2].DiffID = diffPairs[2].DiffID /\ chain[2].Blob # diffPairs[2].Blobsum
    /\ layerTypes[3] # ""

\* C3 as stated: with the first mismatch at chain position k counted from the
\* child (0-indexed; p = k + 1 below), exactly N-1-k positions are non-empty.
C3_AsStated ==
    pc = "done" =>
        \A p \in Paired : FirstMismatch(p) =>
            /\ Cardinality(NonEmptyPositions) = N - p
            /\ \A j \in NonEmptyPositions : Trusted(j) /\ j > N - p + 1
            /\ \A j \in 1..(N - p + 1) : layerTypes[j] = ""

\* C3: with the first mismatch at chain position k counted from the child
\* (0-indexed; p = k + 1 below), the k positions on the child side of it hold
\* their refs' media types, and the position of the mismatch and all positions
\* closer to the root are empty.
C3_FirstMismatch ==
    pc = "done" =>
        \A p \in Paired : FirstMismatch(p) =>
            /\ Len(layerTypes) = N
            /\ NonEmptyPositions = (N - p + 2)..N
            /\ Cardinality(NonEmptyPositions) = p - 1
            /\ \A j \in (N - p + 2)..N : Trusted(j)
            /\ \A j \in 1..(N - p + 1) : layerTypes[j] = ""

C3_Witness ==
    /\ pc = "done" /\ N = 3 /\ Len(chain) = 3
    /\ FirstMismatch(3)
    /\ layerTypes[2] # layerTypes[3]

\* C4: no handle is ever released twice, the walk never releases the caller's
\* handle, and when the function has returned every handle it obtained from
\* Clone() or Parent() has been released exactly once.
C4_HandleDiscipline ==
    /\ \A h \in 1..Len(handles) : handles[h].rel <= 1
    /\ \A h \in 1..Len(handles) : handles[h].by = "caller" => handles[h].rel = 0
    /\ pc = "done" =>
          /\ \A h \in WalkHandles : handles[h].rel = 1
          /\ calls.Release = Cardinality(WalkHandles)

C4_Witness ==
    /\ pc = "done" /\ N = 2 /\ Len(chain) = 3
    /\ MatchAt(1) /\ MatchAt(2)
    /\ Cardinality(WalkHandles) = 3

\* C5: Info() is never called on a nil cursor; with a chain of M < N refs that
\* all agree with their DiffPairs, Info() and Parent() are called M times, the
\* M positions on the child side are filled and the other N-M are empty; with a
\* nil ref (M = 0) no Clone, Info, Parent or Release call is made.
C5_ChainExhausted ==
    /\ pc # "panic"
    /\ (pc = "done" /\ Len(chain) < N /\ \A p \in 1..Len(chain) : MatchAt(p))
          => /\ Len(layerTypes) = N
             /\ calls.Info = Len(chain) /\ calls.Parent = Len(chain)
             /\ \A j \in (N - Len(chain) + 1)..N : Trusted(j)
             /\ \A j \in 1..(N - Len(chain)) : layerTypes[j] = ""
             /\ Len(chain) = 0 =>
                   calls = [Clone |-> 0, Info |-> 0, Parent |-> 0, Release |-> 0]

C5_Witness ==
    /\ pc = "done" /\ N = 3 /\ Len(chain) = 2
    /\ MatchAt(1) /\ MatchAt(2)
    /\ layerTypes[1] = "" /\ layerTypes[2] # ""

\* The Docker media type with the compression of m.
DockerCounterpart(m) ==
    IF m \in {MediaTypeImageLayer, MediaTypeDockerSchema2Layer}
        THEN MediaTypeDockerSchema2Layer
        ELSE MediaTypeDockerSchema2LayerGzip

\* A conversion to OCI at call k followed by a conversion of its result to Docker.
RoundTripAt(k) ==
    /\ k \in 1..(Len(hist) - 1)
    /\ hist[k].oci /\ ~hist[k + 1].oci
    /\ hist[k].in \in Canonical

\* C6 as stated: converting a canonical media type to OCI and the result to
\* Docker gives the media type back.
C6_AsStated ==
    \A k \in 1..Len(hist) : RoundTripAt(k) => hist[k + 1].out = hist[k].in

\* C6: converting a canonical media type to OCI and the result to Docker gives
\* the Docker media type of the same compression: the media type itself for the
\* two Docker media types, its Docker counterpart for the two OCI ones.
C6_RoundTrip ==
    \A k \in 1..Len(hist) : RoundTripAt(k) =>
        /\ hist[k + 1].in = hist[k].out
        /\ hist[k + 1].out = DockerCounterpart(hist[k].in)
        /\ hist[k].in \in DockerTypes => hist[k + 1].out = hist[k].in
        /\ hist[k].in \in OCITypes => hist[k + 1].out # hist[k].in

C6_Witness ==
    /\ Len(hist) = 2 /\ RoundTripAt(1)
    /\ hist[1].in = MediaTypeDockerSchema2LayerGzip
    /\ hist[2].out = MediaTypeDockerSchema2LayerGzip

\* C7: a string that is none of the four canonical media types, the empty
\* string included, is returned unchanged with exactly one warning, whatever
\* the oci flag.
C7_Passthrough ==
    \A k \in 1..Len(hist) : hist[k].in \notin Canonical =>
        hist[k].out = hist[k].in /\ hist[k].warnings = 1

C7_Witness ==
    /\ Len(hist) = 2
    /\ hist[1].in = "application/octet-stream"
    /\ hist[1].oci /\ ~hist[2].oci

\* C8 as stated: a stream of at least 3 bytes that starts with 0x1F 0x8B 0x08
\* is detected as Gzip with no error, however many bytes (at least one) the
\* single Read call delivers, when the read does not fail.
C8_AsStated ==
    (/\ pc = "detected" /\ ~openFails
     /\ Len(stream) >= 3 /\ SubSeq(stream, 1, 3) = GzipMagic
     /\ rd.err \in {"nil", "EOF"} /\ rd.n >= 1)
        => det.ct = Gzip /\ det.err = "nil"

\* C9: when the read reports io.EOF with zero bytes, the compression detected
\* is Uncompressed with no error, and the media type returned is the
\* uncompressed layer media type of the convention asked for.
C9_EmptyBlob ==
    (pc = "detected" /\ ~openFails /\ rd.n = 0 /\ rd.err = "EOF")
        => /\ det.ct = Uncompressed /\ det.err = "nil"
           /\ det.mt = IF oci THEN MediaTypeImageLayer ELSE MediaTypeDockerSchema2Layer

C9_Witness ==
    /\ pc = "detected" /\ ~openFails /\ oci
    /\ stream = <<>> /\ rd.err = "EOF"
    /\ det.mt = MediaTypeImageLayer

\* C10: Info() and Parent() are never called on a released handle; when the
\* cursor is about to be released in the loop it has not been released yet,
\* its Parent() has been obtained (nil exactly for the root) and the position
\* of the step holds the media type of the Info() read from it.
C10_ReleaseOrdering ==
    /\ \A h \in 1..Len(handles) : handles[h].late = 0
    /\ pc = "release" =>
          /\ handles[tref].rel = 0
          /\ info = chain[handles[tref].snap]
          /\ layerTypes[N - i] = info.MediaType
          /\ (parent = Nil) <=> (handles[tref].snap = Len(chain))
          /\ parent # Nil =>
                /\ handles[parent].snap = handles[tref].snap + 1
                /\ handles[parent].rel = 0

C10_Witness ==
    /\ pc = "advance" /\ parent # Nil
    /\ handles[tref].rel = 1 /\ handles[parent].rel = 0
    /\ calls.Parent = 2

====
